---- MODULE Spec2Model ----
(***************************************************************************)
(* CalloutSystem (src/components/datatable_callout.py) as a state machine. *)
(*                                                                         *)
(* State: the grouped series df_grouped (raw rows plus the per-metric      *)
(* baseline columns '<metric>_7_day_avg' / '<metric>_7_day_std_dev'), the  *)
(* working callout set callouts_df with its columns callout_columns, and   *)
(* the outcome of the last call.                                           *)
(*                                                                         *)
(* last_call names the last method called, its arguments, the date a       *)
(* filter read from the clock and the exception the call raised ("" when   *)
(* it returned).                                                           *)
(*                                                                         *)
(* Arithmetic is exact.  A rolling mean is the rational s/n (sum over the  *)
(* window, rows in the window); a rolling standard deviation is kept as    *)
(* its square, the rational q/d with q = n*sum(x^2) - sum(x)^2 and         *)
(* d = n*(n-1), or as NaN when the window holds one row (ddof = 1).        *)
(* Comparisons against mean + t*std are decided on squares, with signs;    *)
(* std_devs_away is held in hundredths.                                    *)
(* pandas semantics assumed: rolling(window, min_periods=1) counts rows,   *)
(* a comparison with NaN is False, DataFrame.apply(axis=1) on a frame      *)
(* without rows yields an empty list of records, concat keeps row order.   *)
(*                                                                         *)
(* Spec is the whole class on any frame, with the default window and      *)
(* the default buffer; SpecStats is calculate_rolling_stats alone, with    *)
(* several windows, on frames in any row order; SpecChecks is Spec without *)
(* the date filters; SpecMetrics and SpecSort run on frames with two       *)
(* metric columns (SpecMetrics with several windows); SpecFlat is the      *)
(* default pipeline on flat series with one extreme value, SpecLong the    *)
(* baselines and deviation                                                 *)
(* checks on every series of one key, SpecNear the same on series whose    *)
(* last value lies next to the window mean; SpecFilters is the             *)
(* absolute-threshold checks and the date filters; SpecShapes is           *)
(* get_callouts on callout frames of any column set.                       *)
(***************************************************************************)
EXTENDS Integers, Sequences, FiniteSets, TLC

VARIABLES df_grouped, callouts_df, callout_columns, last_call

vars == <<df_grouped, callouts_df, callout_columns, last_call>>

(* ------------------------------ bounds -------------------------------- *)
MaxRows == 3
MaxCallouts == 2

\* |std_devs_away| of a flagged row stays below sqrt(MaxRows), in hundredths
ZMax == 300

\* rows of a flat series with one extreme value: longer than the window of 7
MaxFlatRows == 8
MaxLongRows == 6

Keys == {"A", "B"}
Dates == {1, 2, 3}
Values == {10, 20, 30}
Metrics == {"AMOUNT"}
\* the metric columns a frame can carry; a baseline exists per metric
AllMetrics == {"AMOUNT", "HOURS"}
\* the values of a frame that carries more than one metric column
FewValues == {10, 30}
Windows == {2, 7}
Thresholds == {1, 2}
\* thresholds of the deviation checks on frames with several metric columns
LowThresholds == {0}
CondThresholds == {20}
Operators == {">", "<", "="}
TodaySet == {3, 10}
\* the default buffer_days; SpecFilters runs the other buffers
BufferDays == {3}

(* ------------------------------ helpers ------------------------------- *)
Abs(x) == IF x < 0 THEN -x ELSE x

\* x * |x| is monotonic in x: a > b * sqrt(r) iff SgnSq(a) > SgnSq(b) * r.
SgnSq(x) == x * Abs(x)

RECURSIVE SumSeq(_)
SumSeq(s) == IF s = <<>> THEN 0 ELSE Head(s) + SumSeq(Tail(s))

\* the index labels 1..n of a frame with a default RangeIndex, in frame order
Index(rows) == [i \in 1..Len(rows) |-> i]

\* a float that is NaN, or the number it holds
NaN == [nan |-> TRUE, q |-> 0, d |-> 1]

\* a frame column that does not exist / that holds one value per row
NoColumn == [present |-> FALSE, col |-> <<>>]
Column(c) == [present |-> TRUE, col |-> c]

(* ----------------------- calculate_rolling_stats ---------------------- *)
\* mutant: rolling over the whole frame, without the groupby
GroupIdxUngrouped(rows, k) == Index(rows)

\* groupby('KEY'): the index labels of the rows of key k, in frame order
GroupIdx(rows, k) == SelectSeq(Index(rows), LAMBDA i : rows[i].KEY = k)

\* mutant: a window one row too long
WindowValsOneMore(rows, m, g, p, w) ==
    LET lo == IF p - w < 1 THEN 1 ELSE p - w
    IN  [j \in 1..(p - lo + 1) |-> rows[g[lo + j - 1]].VAL[m]]

\* mutant: the window ends at the row before the one it is computed for
\* (closed='left')
WindowValsBeforeRow(rows, m, g, p, w) ==
    LET lo == IF p - w < 1 THEN 1 ELSE p - w
    IN  [j \in 1..(p - lo) |-> rows[g[lo + j - 1]].VAL[m]]

\* rolling(window=w, min_periods=1): the metric values of the window that
\* ends at position p of group g, i.e. positions max(1, p-w+1)..p
WindowVals(rows, m, g, p, w) ==
    LET lo == IF p - w + 1 < 1 THEN 1 ELSE p - w + 1
    IN  [j \in 1..(p - lo + 1) |-> rows[g[lo + j - 1]].VAL[m]]

\* .mean() of a window: sum / count
WindowMean(vals) == [s |-> SumSeq(vals), n |-> Len(vals)]

\* .std() of a window (ddof = 1): NaN for one observation, else the square
\* root of (n*sum(x^2) - sum(x)^2) / (n*(n-1)), kept squared
WindowStd(vals) ==
    LET n  == Len(vals)
        s  == SumSeq(vals)
        ss == SumSeq([j \in 1..n |-> vals[j] * vals[j]])
    IN  IF n < 2 THEN NaN
        ELSE [nan |-> FALSE, q |-> n * ss - s * s, d |-> n * (n - 1)]

\* the window of the row with index label i: its group is the rows of its
\* own key (groupby), its position p is its rank inside that group
WindowOf(rows, m, w, i) ==
    LET g == GroupIdx(rows, rows[i].KEY)
        p == CHOOSE x \in 1..Len(g) : g[x] = i
    IN  WindowVals(rows, m, g, p, w)

\* group.rolling(...).mean().reset_index(0, drop=True) assigned to a column
\* of df_grouped: the value computed for index label i lands on row i
RollingMean(rows, m, w) ==
    [i \in 1..Len(rows) |-> WindowMean(WindowOf(rows, m, w, i))]

RollingStd(rows, m, w) ==
    [i \in 1..Len(rows) |-> WindowStd(WindowOf(rows, m, w, i))]

(* ------------------------- threshold conditions ----------------------- *)
\* mutant: >= for >
IsSpikeNonStrict(v, mean, sd, t) ==
    /\ ~sd.nan
    /\ SgnSq(v * mean.n - mean.s) * sd.d >= SgnSq(t * mean.n) * sd.q

\* v > mean + t * std, False when std is NaN
\*   v > s/n + t*sqrt(q/d)  <=>  v*n - s > (t*n) * sqrt(q/d)
IsSpike(v, mean, sd, t) ==
    /\ ~sd.nan
    /\ SgnSq(v * mean.n - mean.s) * sd.d > SgnSq(t * mean.n) * sd.q

\* mutant: the upper bound of the spike check used for the drop check
IsDropMirrored(v, mean, sd, t) ==
    /\ ~sd.nan
    /\ SgnSq(v * mean.n - mean.s) * sd.d < SgnSq(t * mean.n) * sd.q

\* mutant: <= for <, and an undefined std read as zero
IsDropNonStrict(v, mean, sd, t) ==
    SgnSq(v * mean.n - mean.s) * sd.d <= SgnSq(-(t * mean.n)) * sd.q

\* v < mean - t * std, False when std is NaN
IsDrop(v, mean, sd, t) ==
    /\ ~sd.nan
    /\ SgnSq(v * mean.n - mean.s) * sd.d < SgnSq(-(t * mean.n)) * sd.q

\* round(x, 2) rounds the double nearest to x, which is never a decimal tie
\* itself: these are the k for which the double nearest to (2k+1)/200 lies
\* above it, so that round gives (k+1)/100 (0.005 -> 0.01, 0.025 -> 0.03),
\* and for the others it gives k/100 (0.015 -> 0.01)
TieRoundsUp ==
    {0, 2, 3, 5, 6, 8, 9, 11, 13, 16, 19, 22, 25, 26, 27, 31, 32, 33,
     37, 38, 39, 40, 44, 45, 46, 50, 51, 52, 53, 54, 55, 63, 64, 65,
     66, 67, 68, 75, 76, 77, 78, 79, 80, 87, 88, 89, 90, 91, 92, 93,
     113, 114, 115, 116, 117, 118, 119, 120, 121, 122, 123, 124, 137,
     138, 139, 140, 141, 142, 143, 144, 145, 146, 147, 148, 149, 163,
     164, 165, 166, 167, 168, 169, 170, 171, 172, 173, 174, 187, 188,
     189, 190, 191, 192, 193, 194, 195, 196, 197, 198, 199, 201, 203,
     205, 207, 209, 211, 214, 216, 218, 220, 222, 224, 226, 228, 230,
     232, 234, 236, 237, 239, 241, 243, 245, 247, 249, 251, 253, 255,
     257, 259, 261, 264, 266, 268, 270, 272, 274, 276, 278, 280, 282,
     284, 286, 287, 289, 291, 293, 295, 297, 299, 301, 303, 305, 307,
     309}

\* the hundredths round(x, 2) gives for x = sqrt(num / den) / 100: the
\* nearest integer to sqrt(num / den), a tie decided by the double
RoundSqrt(num, den) ==
    LET k == CHOOSE x \in 0..ZMax :
                 x * x * den <= num /\ (x + 1) * (x + 1) * den > num
        twice == (2 * k + 1) * (2 * k + 1) * den
    IN  IF 4 * num > twice THEN k + 1
        ELSE IF 4 * num < twice THEN k
        ELSE IF k \in TieRoundsUp THEN k + 1 ELSE k

\* mutant: the quotient is cut to two decimals instead of rounded
StdDevsAwayTruncated(v, mean, sd) ==
    LET a == v * mean.n - mean.s
        num == 10000 * a * a * sd.d
        den == mean.n * mean.n * sd.q
    IN  IF sd.nan THEN [kind |-> "nan", z |-> 0]
        ELSE IF sd.q = 0 THEN [kind |-> "ZeroDivisionError", z |-> 0]
        ELSE [kind |-> "num",
              z |-> (IF a < 0 THEN -1 ELSE 1)
                    * (CHOOSE x \in 0..ZMax :
                          x * x * den <= num /\ (x + 1) * (x + 1) * den > num)]

\* round((v - mean) / std, 2), in hundredths: NaN when std is NaN; the row
\* values are Python floats, whose division by a std of 0.0 raises
StdDevsAway(v, mean, sd) ==
    LET a == v * mean.n - mean.s
    IN  IF sd.nan THEN [kind |-> "nan", z |-> 0]
        ELSE IF sd.q = 0 THEN [kind |-> "ZeroDivisionError", z |-> 0]
        ELSE [kind |-> "num",
              z |-> (IF a < 0 THEN -1 ELSE 1)
                    * RoundSqrt(10000 * a * a * sd.d, mean.n * mean.n * sd.q)]

\* a column of the callout records that a batch does not carry is NaN
Missing == [kind |-> "nan", z |-> 0]

(* ------------------------------- state -------------------------------- *)
RowSet == [KEY : Keys, DATE : Dates, VAL : [Metrics -> Values]]

SeriesSet == UNION {[1..n -> RowSet] : n \in 0..MaxRows}

\* today is the date a filter read from the clock, 0 for the other methods
Call(name, m, op, arg, raised) ==
    [name |-> name, metric |-> m, op |-> op, arg |-> arg, raised |-> raised,
     today |-> 0]

\* the columns _initialize_callouts_df gives callouts_df
CalloutColumns ==
    {"key", "date", "check", "condition", "more_info", "value", "std_devs_away"}

\* __init__: the caller's frame, no baseline columns, an empty callout set
Construct(rows) ==
    /\ df_grouped = [rows |-> rows,
                     avg  |-> [m \in AllMetrics |-> NoColumn],
                     std  |-> [m \in AllMetrics |-> NoColumn]]
    /\ callouts_df = <<>>
    /\ callout_columns = CalloutColumns
    /\ last_call = Call("__init__", "", "", 0, "")

\* constructed on any frame: __init__ stores the caller's frame as it is,
\* rows in any order, a (KEY, DATE) pair on one row or on several
Init == \E rows \in SeriesSet : Construct(rows)

\* frames of one key that carry every metric column
MetricSeriesSet ==
    UNION {[1..n -> [KEY : {"A"}, DATE : Dates,
                     VAL : [AllMetrics -> FewValues]]] : n \in 0..MaxRows}

\* a daily series of one key with n rows, flat at lo but for the value hi
\* on day p
FlatSeries(n, p, lo, hi) ==
    [i \in 1..n |-> [KEY |-> "A", DATE |-> i,
                     VAL |-> [m \in Metrics |-> IF i = p THEN hi ELSE lo]]]

\* constructed on a flat series with one extreme high value
InitFlat ==
    \E n \in 1..MaxFlatRows, p \in 1..MaxFlatRows, lo \in 1..2, hi \in 2..3 :
        /\ p <= n
        /\ lo < hi
        /\ Construct(FlatSeries(n, p, lo, hi))

\* constructed on any frame with several metric columns
InitMetrics == \E rows \in MetricSeriesSet : Construct(rows)

\* mutant: the rolling mean also overwrites the metric column itself
calculate_rolling_stats_overwriting(m, w) ==
    /\ df_grouped' =
          [df_grouped EXCEPT
              !.rows = [i \in 1..Len(df_grouped.rows) |->
                          [df_grouped.rows[i] EXCEPT
                              !.VAL[m] = WindowMean(WindowOf(df_grouped.rows, m, w, i)).s
                                            \div Len(WindowOf(df_grouped.rows, m, w, i))]],
              !.avg[m] = Column(RollingMean(df_grouped.rows, m, w)),
              !.std[m] = Column(RollingStd(df_grouped.rows, m, w))]
    /\ last_call' = Call("calculate_rolling_stats", m, "", w, "")
    /\ UNCHANGED <<callouts_df, callout_columns>>

\* mutant: the frame is rebuilt from the raw columns and the new baseline, so
\* the baselines of the other metrics are lost
calculate_rolling_stats_rebuilding(m, w) ==
    /\ df_grouped' =
          [rows |-> df_grouped.rows,
           avg  |-> [x \in AllMetrics |->
                       IF x = m THEN Column(RollingMean(df_grouped.rows, m, w))
                                ELSE NoColumn],
           std  |-> [x \in AllMetrics |->
                       IF x = m THEN Column(RollingStd(df_grouped.rows, m, w))
                                ELSE NoColumn]]
    /\ last_call' = Call("calculate_rolling_stats", m, "", w, "")
    /\ UNCHANGED <<callouts_df, callout_columns>>

\* mutant: baseline columns that exist are kept, only missing ones computed
calculate_rolling_stats_keeping(m, w) ==
    /\ df_grouped' =
          IF df_grouped.avg[m].present THEN df_grouped
          ELSE [df_grouped EXCEPT
                   !.avg[m] = Column(RollingMean(df_grouped.rows, m, w)),
                   !.std[m] = Column(RollingStd(df_grouped.rows, m, w))]
    /\ last_call' = Call("calculate_rolling_stats", m, "", w, "")
    /\ UNCHANGED <<callouts_df, callout_columns>>

calculate_rolling_stats(m, w) ==
    /\ df_grouped' =
          [df_grouped EXCEPT
              !.avg[m] = Column(RollingMean(df_grouped.rows, m, w)),
              !.std[m] = Column(RollingStd(df_grouped.rows, m, w))]
    /\ last_call' = Call("calculate_rolling_stats", m, "", w, "")
    /\ UNCHANGED <<callouts_df, callout_columns>>

(* ------------------------------- checks ------------------------------- *)
\* the boolean mask of check_spike_in_column on row i
SpikeMask(df, m, t, i) ==
    IsSpike(df.rows[i].VAL[m], df.avg[m].col[i], df.std[m].col[i], t)

\* mutant: the drop check filters with the mask of the spike check
DropMaskCopiedFromSpike(df, m, t, i) ==
    IsSpike(df.rows[i].VAL[m], df.avg[m].col[i], df.std[m].col[i], t)

\* the boolean mask of check_drop_in_column on row i
DropMask(df, m, t, i) ==
    IsDrop(df.rows[i].VAL[m], df.avg[m].col[i], df.std[m].col[i], t)

\* mutant: >= and <= for > and <
ConditionMaskNonStrict(df, m, op, c, i) ==
    IF op = ">" THEN df.rows[i].VAL[m] >= c ELSE df.rows[i].VAL[m] <= c

\* the boolean mask of check_condition_in_column on row i
ConditionMask(df, m, op, c, i) ==
    IF op = ">" THEN df.rows[i].VAL[m] > c ELSE df.rows[i].VAL[m] < c

\* mutant: the callout carries the date of the row before the flagged one
DeviationCalloutPreviousRow(df, m, kind, op, t, i) ==
    [key           |-> df.rows[i].KEY,
     date          |-> df.rows[IF i > 1 THEN i - 1 ELSE i].DATE,
     check         |-> [kind |-> kind, metric |-> m],
     condition     |-> [op |-> op, threshold |-> t, unit |-> "std"],
     value         |-> df.rows[i].VAL[m],
     std_devs_away |-> StdDevsAway(df.rows[i].VAL[m],
                                   df.avg[m].col[i], df.std[m].col[i])]

\* mutant: the deviation is stored without its sign
DeviationCalloutUnsigned(df, m, kind, op, t, i) ==
    LET z == StdDevsAway(df.rows[i].VAL[m], df.avg[m].col[i], df.std[m].col[i])
    IN  [key           |-> df.rows[i].KEY,
         date          |-> df.rows[i].DATE,
         check         |-> [kind |-> kind, metric |-> m],
         condition     |-> [op |-> op, threshold |-> t, unit |-> "std"],
         value         |-> df.rows[i].VAL[m],
         std_devs_away |-> [z EXCEPT !.z = Abs(z.z)]]

\* the record the spike / drop lambda builds for row i
DeviationCallout(df, m, kind, op, t, i) ==
    [key           |-> df.rows[i].KEY,
     date          |-> df.rows[i].DATE,
     check         |-> [kind |-> kind, metric |-> m],
     condition     |-> [op |-> op, threshold |-> t, unit |-> "std"],
     value         |-> df.rows[i].VAL[m],
     std_devs_away |-> StdDevsAway(df.rows[i].VAL[m],
                                   df.avg[m].col[i], df.std[m].col[i])]

\* the record the absolute-threshold lambda builds for row i: it has no
\* 'std_devs_away' entry, which concat fills with NaN
ConditionCallout(df, m, op, c, i) ==
    [key           |-> df.rows[i].KEY,
     date          |-> df.rows[i].DATE,
     check         |-> [kind |-> op, metric |-> m],
     condition     |-> [op |-> op, threshold |-> c, unit |-> "abs"],
     value         |-> df.rows[i].VAL[m],
     std_devs_away |-> Missing]

\* mutant: a callout equal to one already there is dropped
ConcatDedup(callouts, batch) ==
    callouts \o SelectSeq(batch, LAMBDA c : \A j \in 1..Len(callouts) : callouts[j] # c)

\* mutant: concatenating with an empty batch yields the empty batch
ConcatEmptyWins(callouts, batch) ==
    IF batch = <<>> THEN <<>> ELSE callouts \o batch

\* pd.concat([callouts_df, pd.DataFrame(new_callouts.tolist())],
\*           ignore_index=True)
Concat(callouts, batch) == callouts \o batch

SpikeBatch(df, m, t) ==
    LET f == SelectSeq(Index(df.rows), LAMBDA i : SpikeMask(df, m, t, i))
    IN  [j \in 1..Len(f) |-> DeviationCallout(df, m, "Spike", ">", t, f[j])]

DropBatch(df, m, t) ==
    LET f == SelectSeq(Index(df.rows), LAMBDA i : DropMask(df, m, t, i))
    IN  [j \in 1..Len(f) |-> DeviationCallout(df, m, "Drop", "<", t, f[j])]

ConditionBatch(df, m, op, c) ==
    LET f == SelectSeq(Index(df.rows), LAMBDA i : ConditionMask(df, m, op, c, i))
    IN  [j \in 1..Len(f) |-> ConditionCallout(df, m, op, c, f[j])]

\* reading a baseline column that was never computed raises KeyError
HasBaseline(df, m) == df.avg[m].present /\ df.std[m].present

\* the keys of the records the spike and drop lambdas build
DeviationColumns == CalloutColumns

\* the keys of the records the absolute-threshold lambda builds
ConditionColumns == CalloutColumns \ {"std_devs_away"}

\* mutant: concat keeps the columns both frames have (join='inner')
ConcatColumnsInner(columns, batch, batch_columns) ==
    IF batch = <<>> THEN {} ELSE columns \cap batch_columns

\* the columns of pd.concat([callouts_df, pd.DataFrame(records)]): those of
\* either frame; a frame built from no record has no column
ConcatColumns(columns, batch, batch_columns) ==
    IF batch = <<>> THEN columns ELSE columns \cup batch_columns

\* the lambda raised on a row of the batch: its std is 0.0
DivisionFails(batch) ==
    \E j \in 1..Len(batch) : batch[j].std_devs_away.kind = "ZeroDivisionError"

\* mutant: a baseline column that was never computed is read as NaN, so the
\* check returns without flagging a row
check_spike_missing_as_nan(m, t) ==
    /\ IF HasBaseline(df_grouped, m)
       THEN /\ Len(callouts_df) + Len(SpikeBatch(df_grouped, m, t)) <= MaxCallouts
            /\ callouts_df' = Concat(callouts_df, SpikeBatch(df_grouped, m, t))
            /\ callout_columns' = ConcatColumns(callout_columns,
                                                SpikeBatch(df_grouped, m, t),
                                                DeviationColumns)
       ELSE UNCHANGED <<callouts_df, callout_columns>>
    /\ last_call' = Call("check_spike_in_column", m, ">", t, "")
    /\ UNCHANGED df_grouped

check_spike_in_column(m, t) ==
    /\ IF ~HasBaseline(df_grouped, m)
       THEN /\ UNCHANGED <<callouts_df, callout_columns>>
            /\ last_call' = Call("check_spike_in_column", m, ">", t, "KeyError")
       ELSE IF DivisionFails(SpikeBatch(df_grouped, m, t))
       THEN /\ UNCHANGED <<callouts_df, callout_columns>>
            /\ last_call' = Call("check_spike_in_column", m, ">", t,
                                 "ZeroDivisionError")
       ELSE /\ Len(callouts_df) + Len(SpikeBatch(df_grouped, m, t)) <= MaxCallouts
            /\ callouts_df' = Concat(callouts_df, SpikeBatch(df_grouped, m, t))
            /\ callout_columns' = ConcatColumns(callout_columns, SpikeBatch(df_grouped, m, t),
                                                DeviationColumns)
            /\ last_call' = Call("check_spike_in_column", m, ">", t, "")
    /\ UNCHANGED df_grouped

check_drop_in_column(m, t) ==
    /\ IF ~HasBaseline(df_grouped, m)
       THEN /\ UNCHANGED <<callouts_df, callout_columns>>
            /\ last_call' = Call("check_drop_in_column", m, "<", t, "KeyError")
       ELSE IF DivisionFails(DropBatch(df_grouped, m, t))
       THEN /\ UNCHANGED <<callouts_df, callout_columns>>
            /\ last_call' = Call("check_drop_in_column", m, "<", t,
                                 "ZeroDivisionError")
       ELSE /\ Len(callouts_df) + Len(DropBatch(df_grouped, m, t)) <= MaxCallouts
            /\ callouts_df' = Concat(callouts_df, DropBatch(df_grouped, m, t))
            /\ callout_columns' = ConcatColumns(callout_columns, DropBatch(df_grouped, m, t),
                                                DeviationColumns)
            /\ last_call' = Call("check_drop_in_column", m, "<", t, "")
    /\ UNCHANGED df_grouped

\* mutant: no operator is refused, anything but '>' is read as '<'
check_condition_unvalidated(m, op, c) ==
    /\ Len(callouts_df) + Len(ConditionBatch(df_grouped, m, op, c)) <= MaxCallouts
    /\ callouts_df' = Concat(callouts_df, ConditionBatch(df_grouped, m, op, c))
    /\ callout_columns' = ConcatColumns(callout_columns, ConditionBatch(df_grouped, m, op, c), ConditionColumns)
    /\ last_call' = Call("check_condition_in_column", m, op, c, "")
    /\ UNCHANGED df_grouped

check_condition_in_column(m, op, c) ==
    /\ IF op \in {">", "<"}
       THEN /\ Len(callouts_df) + Len(ConditionBatch(df_grouped, m, op, c)) <= MaxCallouts
            /\ callouts_df' = Concat(callouts_df, ConditionBatch(df_grouped, m, op, c))
            /\ callout_columns' = ConcatColumns(callout_columns, ConditionBatch(df_grouped, m, op, c),
                                                ConditionColumns)
            /\ last_call' = Call("check_condition_in_column", m, op, c, "")
       ELSE /\ UNCHANGED <<callouts_df, callout_columns>>
            /\ last_call' = Call("check_condition_in_column", m, op, c, "ValueError")
    /\ UNCHANGED df_grouped

(* --------------------------- filters and sort ------------------------- *)
\* mutant: the window excludes its start date
FilterWindowOpenStart(callouts, start_date, end_date) ==
    SelectSeq(callouts, LAMBDA c : c.date > start_date /\ c.date <= end_date)

\* callouts_df[(date >= start_date) & (date <= end_date)]: row order kept
FilterWindow(callouts, start_date, end_date) ==
    SelectSeq(callouts, LAMBDA c : c.date >= start_date /\ c.date <= end_date)

\* mutant: the window of the last week runs up to today
KeepLastWeekWithToday(callouts, today) ==
    FilterWindow(callouts, today - 7, today)

\* start_date = today - timedelta(days=7), end_date = today - timedelta(days=1)
KeepLastWeek(callouts, today) ==
    FilterWindow(callouts, today - 7, today - 1)

\* today is datetime.now().date(), read at the call
filter_last_week(today) ==
    /\ callouts_df' = KeepLastWeek(callouts_df, today)
    /\ last_call' = [Call("filter_last_week", "", "", 0, "") EXCEPT !.today = today]
    /\ UNCHANGED <<df_grouped, callout_columns>>

\* mutant: the buffered window is seven days long instead of eight
KeepBufferedShort(callouts, today, buffer_days) ==
    FilterWindow(callouts, today - (buffer_days + 6), today - buffer_days)

\* start_date = today - timedelta(days=buffer_days+7),
\* end_date = today - timedelta(days=buffer_days)
KeepBuffered(callouts, today, buffer_days) ==
    FilterWindow(callouts, today - (buffer_days + 7), today - buffer_days)

add_buffer_days(today, buffer_days) ==
    /\ callouts_df' = KeepBuffered(callouts_df, today, buffer_days)
    /\ last_call' = [Call("add_buffer_days", "", "", buffer_days, "")
                        EXCEPT !.today = today]
    /\ UNCHANGED <<df_grouped, callout_columns>>

\* mutant: the deviation sorts descending
DateDevBeforeDescending(a, b) ==
    \/ a.date > b.date
    \/ /\ a.date = b.date
       /\ \/ a.std_devs_away.kind = "num" /\ b.std_devs_away.kind = "nan"
          \/ /\ a.std_devs_away.kind = "num" /\ b.std_devs_away.kind = "num"
             /\ a.std_devs_away.z > b.std_devs_away.z

\* mutant: NaN sorts first (na_position='first')
DateDevBeforeNaNFirst(a, b) ==
    \/ a.date > b.date
    \/ /\ a.date = b.date
       /\ \/ a.std_devs_away.kind = "nan" /\ b.std_devs_away.kind = "num"
          \/ /\ a.std_devs_away.kind = "num" /\ b.std_devs_away.kind = "num"
             /\ a.std_devs_away.z < b.std_devs_away.z

\* sort_values(['date', 'std_devs_away'], ascending=[False, True]):
\* a sorts strictly before b; NaN sorts last (na_position='last')
DateDevBefore(a, b) ==
    \/ a.date > b.date
    \/ /\ a.date = b.date
       /\ \/ a.std_devs_away.kind = "num" /\ b.std_devs_away.kind = "nan"
          \/ /\ a.std_devs_away.kind = "num" /\ b.std_devs_away.kind = "num"
             /\ a.std_devs_away.z < b.std_devs_away.z

\* sort_values('date', ascending=False)
DateBefore(a, b) == a.date > b.date

RECURSIVE InsertSorted(_, _, _)
\* x placed behind every element that does not sort strictly after it
InsertSorted(x, sorted, byDev) ==
    IF sorted = <<>> THEN <<x>>
    ELSE IF (IF byDev THEN DateDevBefore(x, Head(sorted))
                      ELSE DateBefore(x, Head(sorted)))
         THEN <<x>> \o sorted
         ELSE <<Head(sorted)>> \o InsertSorted(x, Tail(sorted), byDev)

RECURSIVE SortValues(_, _)
\* a stable sort: equal keys keep their order
SortValues(callouts, byDev) ==
    IF callouts = <<>> THEN <<>>
    ELSE InsertSorted(callouts[Len(callouts)],
                      SortValues(SubSeq(callouts, 1, Len(callouts) - 1), byDev),
                      byDev)

\* mutant: the branch for callouts without a 'std_devs_away' column is taken
SortedByDateOnly(callouts) == SortValues(callouts, FALSE)

\* sort_values(['date', 'std_devs_away'], ascending=[False, True]): a sort
\* on several columns is a stable lexicographic sort
SortedCallouts(callouts) == SortValues(callouts, TRUE)

\* the place of a metric name in the order of strings
NameOrder(s) == IF s = "AMOUNT" THEN 1 ELSE 2

\* sort_values('metric', ascending=True)
MetricBefore(a, b) == NameOrder(a.metric) < NameOrder(b.metric)

\* the rearrangements of callouts in which no callout comes after one that
\* sorts strictly after it: a sort on one column (quicksort) promises no
\* order among equal keys
OrderedPerms(callouts, byMetric) ==
    LET n     == Len(callouts)
        perms == {p \in [1..n -> 1..n] : \A i, j \in 1..n : i # j => p[i] # p[j]}
        cand  == {[i \in 1..n |-> callouts[p[i]]] : p \in perms}
    IN  {s \in cand :
            \A i \in 1..(n - 1) :
                IF byMetric THEN ~MetricBefore(s[i + 1], s[i])
                            ELSE ~DateBefore(s[i + 1], s[i])}

\* mutant: the 'metric' column is looked for before the 'date' column
SortResultsMetricFirst(callouts, columns) ==
    IF "metric" \in columns
    THEN OrderedPerms(callouts, TRUE)
    ELSE IF "date" \in columns
    THEN IF "std_devs_away" \in columns
         THEN {SortedCallouts(callouts)}
         ELSE OrderedPerms(callouts, FALSE)
    ELSE {callouts}

\* the frames get_callouts can return for a frame with the given columns
SortResults(callouts, columns) ==
    IF "date" \in columns
    THEN IF "std_devs_away" \in columns
         THEN {SortedCallouts(callouts)}
         ELSE OrderedPerms(callouts, FALSE)
    ELSE IF "metric" \in columns
    THEN OrderedPerms(callouts, TRUE)
    ELSE {callouts}

\* mutant: the sorted frame is returned and not assigned to callouts_df
get_callouts_not_stored ==
    /\ callouts_df' = callouts_df
    /\ last_call' = Call("get_callouts", "", "", 0, "")
    /\ UNCHANGED <<df_grouped, callout_columns>>

get_callouts ==
    /\ callouts_df' \in SortResults(callouts_df, callout_columns)
    /\ last_call' = Call("get_callouts", "", "", 0, "")
    /\ UNCHANGED <<df_grouped, callout_columns>>

(* ---------------------------- specification --------------------------- *)
Next ==
    \/ \E m \in Metrics : calculate_rolling_stats(m, 7)
    \/ \E m \in Metrics, t \in Thresholds : check_spike_in_column(m, t)
    \/ \E m \in Metrics, t \in Thresholds : check_drop_in_column(m, t)
    \/ \E m \in Metrics, op \in Operators, c \in CondThresholds :
          check_condition_in_column(m, op, c)
    \/ \E today \in TodaySet : filter_last_week(today)
    \/ \E today \in TodaySet, b \in BufferDays : add_buffer_days(today, b)
    \/ get_callouts

Spec == Init /\ [][Next]_vars

\* the baselines and the deviation checks, per metric, on frames that carry
\* several metric columns
NextMetrics ==
    \/ \E m \in AllMetrics, w \in Windows : calculate_rolling_stats(m, w)
    \/ \E m \in AllMetrics, t \in Thresholds : check_spike_in_column(m, t)
    \/ \E m \in AllMetrics, t \in Thresholds : check_drop_in_column(m, t)

SpecMetrics == InitMetrics /\ [][NextMetrics]_vars

\* the baselines, the checks and the sort, without the date filters
NextChecks ==
    \/ \E m \in Metrics : calculate_rolling_stats(m, 7)
    \/ \E m \in Metrics, t \in Thresholds : check_spike_in_column(m, t)
    \/ \E m \in Metrics, t \in Thresholds : check_drop_in_column(m, t)
    \/ \E m \in Metrics, op \in Operators, c \in CondThresholds :
          check_condition_in_column(m, op, c)
    \/ get_callouts

SpecChecks == Init /\ [][NextChecks]_vars

\* the default pipeline: a baseline over 7 rows, checks at 2 standard
\* deviations
NextFlat ==
    \/ \E m \in Metrics : calculate_rolling_stats(m, 7)
    \/ \E m \in Metrics : check_spike_in_column(m, 2)
    \/ \E m \in Metrics : check_drop_in_column(m, 2)

SpecFlat == InitFlat /\ [][NextFlat]_vars

\* the checks at the lowest threshold and the sort, on frames that carry
\* several metric columns: one row can be a spike of one metric and a drop
\* of another
NextSort ==
    \/ \E m \in AllMetrics : calculate_rolling_stats(m, 7)
    \/ \E m \in AllMetrics, t \in LowThresholds : check_spike_in_column(m, t)
    \/ \E m \in AllMetrics, t \in LowThresholds : check_drop_in_column(m, t)
    \/ \E m \in Metrics, op \in Operators, c \in CondThresholds :
          check_condition_in_column(m, op, c)
    \/ get_callouts

SpecSort == InitMetrics /\ [][NextSort]_vars

\* the rolling statistics alone, on frames in any row order
NextStats == \E m \in Metrics, w \in Windows : calculate_rolling_stats(m, w)

SpecStats == Init /\ [][NextStats]_vars

\* callout frames of other shapes: callouts_df is a public attribute, and a
\* caller that assigns it a frame of its own decides which columns it has
ShapeColumns == {"date", "std_devs_away", "metric"}

ShapeDevs == {[kind |-> "num", z |-> 100], [kind |-> "num", z |-> 300], Missing}

ShapePicks == [date : 1..2, std_devs_away : ShapeDevs, metric : AllMetrics]

\* the row of a frame with the given columns that holds the picked values
ShapeRow(columns, pick) ==
    [c \in columns |-> IF c = "date" THEN pick.date
                       ELSE IF c = "std_devs_away" THEN pick.std_devs_away
                       ELSE IF c = "metric" THEN pick.metric
                       ELSE "A"]

\* constructed on an empty frame, then callouts_df assigned a frame with the
\* column 'key' and any of the columns get_callouts looks for
InitShapes ==
    \E columns \in SUBSET ShapeColumns, n \in 0..MaxCallouts :
        \E picks \in [1..n -> ShapePicks] :
            /\ df_grouped = [rows |-> <<>>,
                             avg  |-> [m \in AllMetrics |-> NoColumn],
                             std  |-> [m \in AllMetrics |-> NoColumn]]
            /\ callout_columns = columns \cup {"key"}
            /\ callouts_df = [i \in 1..n |->
                                 ShapeRow(columns \cup {"key"}, picks[i])]
            /\ last_call = Call("__init__", "", "", 0, "")

NextShapes == get_callouts

SpecShapes == InitShapes /\ [][NextShapes]_vars

\* a daily series of one key with the given metric values
LongValues == 1..3

LongSeries(vs) ==
    [i \in 1..Len(vs) |-> [KEY |-> "A", DATE |-> i,
                           VAL |-> [m \in Metrics |-> vs[i]]]]

\* constructed on a daily series of one key, of up to MaxLongRows rows
InitLong ==
    \E n \in 1..MaxLongRows :
        \E vs \in [1..n -> LongValues] : Construct(LongSeries(vs))

\* the baselines and the deviation checks on series long enough for the
\* default threshold to flag a row
NextLong ==
    \/ \E m \in Metrics, w \in Windows : calculate_rolling_stats(m, w)
    \/ \E m \in Metrics, t \in Thresholds : check_spike_in_column(m, t)
    \/ \E m \in Metrics, t \in Thresholds : check_drop_in_column(m, t)

SpecLong == InitLong /\ [][NextLong]_vars

\* daily series of one key whose third value lies next to the mean of its
\* window: two values that differ by range, then one that is gap / 3 above
\* (up) or below the mean of the three
NearRanges == {135, 137, 139, 141, 143, 145, 147, 149, 151, 153, 155, 157, 159, 161}

NearGaps == {1, 3}

NearFloors == 0..2

NearThresholds == {0, 1}

NearSeries(floor, range, gap, up) ==
    LET vs == IF up THEN <<floor + range, floor, floor + (range + gap) \div 2>>
                    ELSE <<floor, floor + range, floor + (range - gap) \div 2>>
    IN  [i \in 1..3 |-> [KEY |-> "A", DATE |-> i,
                         VAL |-> [m \in Metrics |-> vs[i]]]]

\* a flat daily series of one key that ends one step higher or lower
StepSeries(floor, step, up) ==
    LET vs == IF up THEN <<floor, floor, floor + step>>
                    ELSE <<floor + step, floor + step, floor>>
    IN  [i \in 1..3 |-> [KEY |-> "A", DATE |-> i,
                         VAL |-> [m \in Metrics |-> vs[i]]]]

\* constructed on a series whose last value is near the mean, or far from it
InitNear ==
    \/ \E floor \in NearFloors, range \in NearRanges, gap \in NearGaps,
          up \in BOOLEAN : Construct(NearSeries(floor, range, gap, up))
    \/ \E floor \in NearFloors, step \in NearGaps, up \in BOOLEAN :
          Construct(StepSeries(floor, step, up))

\* the default baseline and the deviation checks at the lowest thresholds
NextNear ==
    \/ \E m \in Metrics : calculate_rolling_stats(m, 7)
    \/ \E m \in Metrics, t \in NearThresholds : check_spike_in_column(m, t)
    \/ \E m \in Metrics, t \in NearThresholds : check_drop_in_column(m, t)

SpecNear == InitNear /\ [][NextNear]_vars

\* the absolute-threshold checks and the date filters, with no buffer, short
\* buffers and a buffer longer than the week
FilterBufferDays == {0, 1, 3, 8}

NextFilters ==
    \/ \E m \in Metrics, op \in Operators, c \in CondThresholds :
          check_condition_in_column(m, op, c)
    \/ \E today \in TodaySet : filter_last_week(today)
    \/ \E today \in TodaySet, b \in FilterBufferDays : add_buffer_days(today, b)

SpecFilters == Init /\ [][NextFilters]_vars

(* ================== properties of the rolling statistics ============== *)
\* mean is the arithmetic mean of vals
MeanIs(mean, vals) == mean.s * Len(vals) = SumSeq(vals) * mean.n

\* sd is the sample standard deviation of vals: undefined for one value, else
\* the root of sum((x - mean)^2) / (n - 1); compared squared, scaled by n^2
StdIs(sd, vals) ==
    LET n == Len(vals)
        s == SumSeq(vals)
        dev2 == SumSeq([j \in 1..n |-> (n * vals[j] - s) * (n * vals[j] - s)])
    IN  IF n < 2 THEN sd.nan
        ELSE ~sd.nan /\ sd.q * n * n * (n - 1) = sd.d * dev2

ValuesAt(rows, m, idx) == [j \in 1..Len(idx) |-> rows[idx[j]].VAL[m]]

\* the rows of row i's key from row i backwards, at most w of them
TrailingRows(rows, i, w) ==
    SelectSeq(Index(rows),
              LAMBDA j : /\ j <= i
                         /\ rows[j].KEY = rows[i].KEY
                         /\ Cardinality({k \in (j + 1)..i :
                                            rows[k].KEY = rows[i].KEY}) < w)

ExampleRows ==
    [i \in 1..4 |-> [KEY |-> "A", DATE |-> i, VAL |-> [m \in Metrics |-> 10 * i]]]

\* C3: after calculate_rolling_stats(metric, window), rolling_mean of every
\* row is the mean, and rolling_std the sample standard deviation, of the
\* metric over the last min(window, i+1) rows of the row's key that end at
\* the row; for [10,20,30,40] and window 7 the means are 10, 15, 20, 25 and
\* the first std is undefined.
C3_RollingWindowStats ==
    /\ last_call.name = "calculate_rolling_stats" =>
          \A i \in 1..Len(df_grouped.rows) :
              LET m == last_call.metric
                  vals == ValuesAt(df_grouped.rows, m,
                                   TrailingRows(df_grouped.rows, i, last_call.arg))
              IN  /\ MeanIs(df_grouped.avg[m].col[i], vals)
                  /\ StdIs(df_grouped.std[m].col[i], vals)
    /\ \A m \in Metrics :
          /\ \A i \in 1..4 :
                /\ RollingMean(ExampleRows, m, 7)[i].n > 0
                /\ 2 * RollingMean(ExampleRows, m, 7)[i].s
                      = (10 + 10 * i) * RollingMean(ExampleRows, m, 7)[i].n
          /\ RollingStd(ExampleRows, m, 7)[1].nan

\* window 2 on a key with three rows 10, 20, 30: the third mean is 25
C3_Witness ==
    /\ last_call = Call("calculate_rolling_stats", "AMOUNT", "", 2, "")
    /\ Len(df_grouped.rows) = 3
    /\ \A i \in 1..3 : /\ df_grouped.rows[i].KEY = "A"
                       /\ df_grouped.rows[i].VAL["AMOUNT"] = 10 * i
    /\ df_grouped.avg["AMOUNT"].col[3] = [s |-> 50, n |-> 2]
    /\ df_grouped.std["AMOUNT"].col[1].nan

\* C4: the baseline of every row of a key is the one calculate_rolling_stats
\* computes on the frame that holds the rows of that key alone, whatever
\* rows of other keys the frame has and wherever they stand.
C4_NoCrossKeyLeakage ==
    last_call.name = "calculate_rolling_stats" =>
        \A k \in Keys :
            LET m == last_call.metric
                own == SelectSeq(df_grouped.rows, LAMBDA r : r.KEY = k)
                at == SelectSeq(Index(df_grouped.rows),
                                LAMBDA i : df_grouped.rows[i].KEY = k)
            IN  \A p \in 1..Len(at) :
                    /\ df_grouped.avg[m].col[at[p]]
                          = RollingMean(own, m, last_call.arg)[p]
                    /\ df_grouped.std[m].col[at[p]]
                          = RollingStd(own, m, last_call.arg)[p]

\* rows of A around a row of B with another value: the second row of A has
\* the baseline of A's two rows
C4_Witness ==
    /\ last_call.name = "calculate_rolling_stats"
    /\ Len(df_grouped.rows) = 3
    /\ df_grouped.rows[1].KEY = "A" /\ df_grouped.rows[1].VAL["AMOUNT"] = 10
    /\ df_grouped.rows[2].KEY = "B" /\ df_grouped.rows[2].VAL["AMOUNT"] = 30
    /\ df_grouped.rows[3].KEY = "A" /\ df_grouped.rows[3].VAL["AMOUNT"] = 10
    /\ df_grouped.avg["AMOUNT"].col[3] = [s |-> 20, n |-> 2]
    /\ df_grouped.std["AMOUNT"].col[3] = [nan |-> FALSE, q |-> 0, d |-> 2]

\* row j is not later than row i: an earlier date, or the same date and not
\* behind it in the frame
NotLater(rows, j, i) ==
    \/ rows[j].DATE < rows[i].DATE
    \/ rows[j].DATE = rows[i].DATE /\ j <= i

\* the rows of row i's key that are not later than row i, the latest w of them
TrailingByDate(rows, i, w) ==
    SelectSeq(Index(rows),
              LAMBDA j : /\ rows[j].KEY = rows[i].KEY
                         /\ NotLater(rows, j, i)
                         /\ Cardinality({k \in 1..Len(rows) :
                                            /\ k # j
                                            /\ rows[k].KEY = rows[i].KEY
                                            /\ NotLater(rows, j, k)
                                            /\ NotLater(rows, k, i)}) < w)

\* C5: the baseline of every row is the one of the rows sorted by date: it
\* is computed from the latest rows of its key with date <= the row's date.
C5_BaselineFollowsDateOrder ==
    last_call.name = "calculate_rolling_stats" =>
        \A i \in 1..Len(df_grouped.rows) :
            LET m == last_call.metric
                vals == ValuesAt(df_grouped.rows, m,
                                 TrailingByDate(df_grouped.rows, i, last_call.arg))
            IN  /\ MeanIs(df_grouped.avg[m].col[i], vals)
                /\ StdIs(df_grouped.std[m].col[i], vals)

(* ====================== properties of the checks ====================== *)
\* the callouts a step appended behind the ones that were there
Appended(old, new) == SubSeq(new, Len(old) + 1, Len(new))

\* batch holds one callout per index label of f, in order, each carrying the
\* key, date and value of its row and the name of the check
RowsMatch(batch, df, m, f, kind) ==
    /\ Len(batch) = Len(f)
    /\ \A j \in 1..Len(f) :
          /\ batch[j].key = df.rows[f[j]].KEY
          /\ batch[j].date = df.rows[f[j]].DATE
          /\ batch[j].value = df.rows[f[j]].VAL[m]
          /\ batch[j].check = [kind |-> kind, metric |-> m]

\* n*(value - mean) of row i, and the square of n*t*std, for t >= 0
Excess(df, m, i) ==
    df.rows[i].VAL[m] * df.avg[m].col[i].n - df.avg[m].col[i].s

\* value > rolling_mean + t * rolling_std of row i (t >= 0, std a number):
\* the excess is positive and its square exceeds (t*std)^2
StrictlyAbove(df, m, t, i) ==
    /\ ~df.std[m].col[i].nan
    /\ Excess(df, m, i) > 0
    /\ Excess(df, m, i) * Excess(df, m, i) * df.std[m].col[i].d
          > t * t * df.avg[m].col[i].n * df.avg[m].col[i].n * df.std[m].col[i].q

\* value < rolling_mean - t * rolling_std of row i (t >= 0, std a number)
StrictlyBelow(df, m, t, i) ==
    /\ ~df.std[m].col[i].nan
    /\ Excess(df, m, i) < 0
    /\ Excess(df, m, i) * Excess(df, m, i) * df.std[m].col[i].d
          > t * t * df.avg[m].col[i].n * df.avg[m].col[i].n * df.std[m].col[i].q

\* |value - rolling_mean| = t * rolling_std exactly, with std > 0
OnBound(df, m, t, i) ==
    /\ ~df.std[m].col[i].nan
    /\ df.std[m].col[i].q > 0
    /\ Excess(df, m, i) * Excess(df, m, i) * df.std[m].col[i].d
          = t * t * df.avg[m].col[i].n * df.avg[m].col[i].n * df.std[m].col[i].q

HasCalloutFor(callouts, row, kind) ==
    \E j \in 1..Len(callouts) :
        /\ callouts[j].key = row.KEY
        /\ callouts[j].date = row.DATE
        /\ callouts[j].check.kind = kind

\* C1: a successful check_spike_in_column(metric, t) appends one callout for
\* each row whose value is strictly greater than rolling_mean + t*rolling_std
\* of that row and for no other row; with mean 10, std 2 and t 2 the value 14
\* is not flagged and the value 15 is.
C1_SpikeIffStrictlyAbove ==
    [][/\ (last_call'.name = "check_spike_in_column" /\ last_call'.raised = "")
          => RowsMatch(Appended(callouts_df, callouts_df'), df_grouped,
                       last_call'.metric,
                       SelectSeq(Index(df_grouped.rows),
                                 LAMBDA i : StrictlyAbove(df_grouped, last_call'.metric,
                                                          last_call'.arg, i)),
                       "Spike")
       /\ ~IsSpike(14, [s |-> 10, n |-> 1], [nan |-> FALSE, q |-> 4, d |-> 1], 2)
       /\ IsSpike(15, [s |-> 10, n |-> 1], [nan |-> FALSE, q |-> 4, d |-> 1], 2)
      ]_vars

\* the spike check with threshold 1 has run on a frame with a row whose value
\* sits exactly one standard deviation above its mean: the row has no callout
C1_Witness ==
    /\ last_call = Call("check_spike_in_column", "AMOUNT", ">", 1, "")
    /\ \E i \in 1..Len(df_grouped.rows) :
          /\ OnBound(df_grouped, "AMOUNT", 1, i)
          /\ Excess(df_grouped, "AMOUNT", i) > 0
          /\ ~HasCalloutFor(callouts_df, df_grouped.rows[i], "Spike")

\* C2: a successful check_drop_in_column(metric, t) appends one callout for
\* each row whose value is strictly less than rolling_mean - t*rolling_std of
\* that row and for no other row.
C2_DropIffStrictlyBelow ==
    [][/\ (last_call'.name = "check_drop_in_column" /\ last_call'.raised = "")
          => RowsMatch(Appended(callouts_df, callouts_df'), df_grouped,
                       last_call'.metric,
                       SelectSeq(Index(df_grouped.rows),
                                 LAMBDA i : StrictlyBelow(df_grouped, last_call'.metric,
                                                          last_call'.arg, i)),
                       "Drop")
       /\ ~IsDrop(6, [s |-> 10, n |-> 1], [nan |-> FALSE, q |-> 4, d |-> 1], 2)
       /\ IsDrop(5, [s |-> 10, n |-> 1], [nan |-> FALSE, q |-> 4, d |-> 1], 2)
      ]_vars

\* the drop check with threshold 1 has run and flagged a row below its bound
\* while a row that is not below its bound went unflagged
C2_Witness ==
    /\ last_call = Call("check_drop_in_column", "AMOUNT", "<", 1, "")
    /\ \E i, j \in 1..Len(df_grouped.rows) :
          /\ StrictlyBelow(df_grouped, "AMOUNT", 1, i)
          /\ HasCalloutFor(callouts_df, df_grouped.rows[i], "Drop")
          /\ ~StrictlyBelow(df_grouped, "AMOUNT", 1, j)
          /\ ~HasCalloutFor(callouts_df, df_grouped.rows[j], "Drop")

CheckNames ==
    {"check_spike_in_column", "check_drop_in_column", "check_condition_in_column"}

\* value op c, for the two operators the check supports
Satisfies(v, op, c) == (op = ">" /\ v > c) \/ (op = "<" /\ v < c)

StripBaseline(df) ==
    [df EXCEPT !.avg = [m \in AllMetrics |-> NoColumn],
               !.std = [m \in AllMetrics |-> NoColumn]]

\* C6: a successful check_condition_in_column(metric, op, c) appends one
\* callout for each row whose value satisfies 'value op c' strictly and for no
\* other row, every such callout has no std_devs_away value, and the batch is
\* the one the check yields on the frame without its baseline columns.
C6_ConditionFlagsByValueAlone ==
    [][(last_call'.name = "check_condition_in_column" /\ last_call'.raised = "")
        => LET m == last_call'.metric
               op == last_call'.op
               c == last_call'.arg
               new == Appended(callouts_df, callouts_df')
           IN  /\ RowsMatch(new, df_grouped, m,
                            SelectSeq(Index(df_grouped.rows),
                                      LAMBDA i : Satisfies(df_grouped.rows[i].VAL[m], op, c)),
                            op)
               /\ \A j \in 1..Len(new) : new[j].std_devs_away.kind = "nan"
               /\ new = ConditionBatch(StripBaseline(df_grouped), m, op, c)
      ]_vars

\* '> 20' has run before any rolling stats: a row of value 30 has its
\* callout, a row of value 20 has none
C6_Witness ==
    /\ last_call = Call("check_condition_in_column", "AMOUNT", ">", 20, "")
    /\ ~HasBaseline(df_grouped, "AMOUNT")
    /\ \E i, j \in 1..Len(df_grouped.rows) :
          /\ df_grouped.rows[i].VAL["AMOUNT"] = 30
          /\ HasCalloutFor(callouts_df, df_grouped.rows[i], ">")
          /\ df_grouped.rows[j].VAL["AMOUNT"] = 20
          /\ ~HasCalloutFor(callouts_df, df_grouped.rows[j], ">")

\* C7: check_condition_in_column with an operator other than '>' and '<'
\* raises ValueError and leaves the callout set and the series as they were;
\* with '>' or '<' it does not raise.
C7_InvalidOperatorRaises ==
    [][last_call'.name = "check_condition_in_column"
        => IF last_call'.op \in {">", "<"}
           THEN last_call'.raised = ""
           ELSE /\ last_call'.raised = "ValueError"
                /\ callouts_df' = callouts_df
                /\ df_grouped' = df_grouped
      ]_vars

\* the operator '=' was refused while the callout set held callouts
C7_Witness ==
    /\ last_call.name = "check_condition_in_column"
    /\ last_call.op = "="
    /\ last_call.raised = "ValueError"
    /\ Len(callouts_df) > 0

\* row i satisfies the condition of the check a call names
Flagged(df, call, i) ==
    IF call.name = "check_spike_in_column"
    THEN StrictlyAbove(df, call.metric, call.arg, i)
    ELSE IF call.name = "check_drop_in_column"
    THEN StrictlyBelow(df, call.metric, call.arg, i)
    ELSE Satisfies(df.rows[i].VAL[call.metric], call.op, call.arg)

\* the rows that satisfy the condition of the check a call names, in frame
\* order, and their number
FlaggedRows(df, call) ==
    SelectSeq(Index(df.rows), LAMBDA i : Flagged(df, call, i))

FlaggedCount(df, call) == Len(FlaggedRows(df, call))

\* the arguments of a check call are ones the check accepts
ValidCall(df, call) ==
    IF call.name = "check_condition_in_column"
    THEN call.op \in {">", "<"}
    ELSE HasBaseline(df, call.metric)

\* C8: every check invocation keeps the callouts that were there, unmodified
\* and in place, and appends one callout per flagged row even when an equal
\* callout is already there.
C8_ChecksOnlyAppend ==
    [][last_call'.name \in CheckNames
        => /\ Len(callouts_df') >= Len(callouts_df)
           /\ SubSeq(callouts_df', 1, Len(callouts_df)) = callouts_df
           /\ last_call'.raised = ""
                 => Len(callouts_df') - Len(callouts_df)
                       = FlaggedCount(df_grouped, last_call')
      ]_vars

\* the same check has run twice: its flagged row has two identical callouts
C8_Witness ==
    /\ last_call.name \in CheckNames
    /\ Len(callouts_df) = 2
    /\ callouts_df[1] = callouts_df[2]

\* C9: a check invocation with accepted arguments that flags zero rows does
\* not raise and leaves the callout set unchanged; on an empty series the
\* callout set is empty after every call.
C9_ZeroFlagsLeaveSetUnchanged ==
    /\ [](Len(df_grouped.rows) = 0 => callouts_df = <<>>)
    /\ [][(/\ last_call'.name \in CheckNames
           /\ ValidCall(df_grouped, last_call')
           /\ FlaggedCount(df_grouped, last_call') = 0)
           => /\ last_call'.raised = ""
              /\ callouts_df' = callouts_df
         ]_vars

\* a spike check that flagged nothing has run on a callout set that holds
\* callouts
C9_Witness ==
    /\ last_call.name = "check_spike_in_column"
    /\ last_call.raised = ""
    /\ FlaggedCount(df_grouped, last_call) = 0
    /\ Len(callouts_df) > 0

\* the rolling std of row i is undefined or zero
Degenerate(df, m, i) == df.std[m].col[i].nan \/ df.std[m].col[i].q = 0

AllThresholds == 0..3

\* C10: a row whose rolling std is undefined or zero gets no callout from
\* the spike check or the drop check, for every threshold >= 0, and the check
\* does not raise: such a row is outside both masks, and the callouts a check
\* appends are, one for one, those of the rows in its mask whose std is
\* defined and not zero.
C10_DegenerateStdNeverFlagged ==
    /\ [](\A m \in Metrics :
             HasBaseline(df_grouped, m) =>
                 \A i \in 1..Len(df_grouped.rows), t \in AllThresholds :
                     Degenerate(df_grouped, m, i) =>
                         /\ ~SpikeMask(df_grouped, m, t, i)
                         /\ ~DropMask(df_grouped, m, t, i))
    /\ [][(/\ last_call'.name \in {"check_spike_in_column", "check_drop_in_column"}
           /\ HasBaseline(df_grouped, last_call'.metric))
           => /\ last_call'.raised = ""
              /\ RowsMatch(Appended(callouts_df, callouts_df'), df_grouped,
                           last_call'.metric,
                           SelectSeq(Index(df_grouped.rows),
                                     LAMBDA i : Flagged(df_grouped, last_call', i)
                                         /\ ~Degenerate(df_grouped,
                                                        last_call'.metric, i)),
                           IF last_call'.name = "check_spike_in_column"
                           THEN "Spike" ELSE "Drop")
         ]_vars

\* the spike check has run on a key whose first row has an undefined std and
\* whose second row has a zero std: only a third row has a callout
C10_Witness ==
    /\ last_call = Call("check_spike_in_column", "AMOUNT", ">", 1, "")
    /\ \E i, j, k \in 1..Len(df_grouped.rows) :
          /\ df_grouped.std["AMOUNT"].col[i].nan
          /\ ~df_grouped.std["AMOUNT"].col[j].nan
          /\ df_grouped.std["AMOUNT"].col[j].q = 0
          /\ ~HasCalloutFor(callouts_df, df_grouped.rows[i], "Spike")
          /\ ~HasCalloutFor(callouts_df, df_grouped.rows[j], "Spike")
          /\ HasCalloutFor(callouts_df, df_grouped.rows[k], "Spike")

(* ============== properties of the checks, filters and sort ============ *)
\* C11: a spike or drop check on a metric whose baseline columns were never
\* computed raises (KeyError) and leaves the callout set as it was, whether or
\* not another metric has its baseline; with the baseline present it returns.
C11_MissingBaselineRaises ==
    [][last_call'.name \in {"check_spike_in_column", "check_drop_in_column"}
        => IF HasBaseline(df_grouped, last_call'.metric)
           THEN last_call'.raised = ""
           ELSE /\ last_call'.raised = "KeyError"
                /\ callouts_df' = callouts_df
      ]_vars

\* the spike check on AMOUNT raised while HOURS had its baseline and the
\* callout set held a callout of HOURS
C11_Witness ==
    /\ last_call.name = "check_spike_in_column"
    /\ last_call.metric = "AMOUNT"
    /\ last_call.raised = "KeyError"
    /\ ~HasBaseline(df_grouped, "AMOUNT")
    /\ HasBaseline(df_grouped, "HOURS")
    /\ Len(callouts_df) > 0
    /\ \A j \in 1..Len(callouts_df) : callouts_df[j].check.metric = "HOURS"


\* the positions of old whose date lies lo..hi days before today
KeptIdx(old, today, lo, hi) ==
    {i \in 1..Len(old) : today - old[i].date \in lo..hi}

\* new holds exactly the callouts of old dated lo..hi days before today, in
\* the order they had
RetainsExactly(old, new, today, lo, hi) ==
    LET kept == KeptIdx(old, today, lo, hi)
    IN  /\ Len(new) = Cardinality(kept)
        /\ \A i \in kept :
              new[Cardinality({k \in kept : k <= i})] = old[i]

\* callouts dated 2024-06-07 .. 2024-06-15, as days of June
JuneCallouts == [i \in 1..9 |-> [date |-> 6 + i]]

\* C12: filter_last_week keeps exactly the callouts dated 1..7 days before
\* today, i.e. today-7 <= date <= today-1; with today = 2024-06-15 it keeps
\* 2024-06-08 .. 2024-06-14 and drops 2024-06-07 and 2024-06-15.
C12_LastWeekWindow ==
    /\ [](KeepLastWeek(JuneCallouts, 15) = [i \in 1..7 |-> [date |-> 7 + i]])
    /\ [][last_call'.name = "filter_last_week"
            => RetainsExactly(callouts_df, callouts_df', last_call'.today, 1, 7)
         ]_vars

\* filter_last_week ran on the day of the last row: the callout of the day
\* before is there, the callout the same check made for the last row is not
C12_Witness ==
    /\ last_call.name = "filter_last_week"
    /\ last_call.today = 3
    /\ Len(df_grouped.rows) = 3
    /\ ConditionMask(df_grouped, "AMOUNT", ">", 20, 3)
    /\ callouts_df = <<ConditionCallout(df_grouped, "AMOUNT", ">", 20, 2)>>


\* C13: add_buffer_days(buffer) keeps exactly the callouts dated
\* buffer..buffer+7 days before today, i.e.
\* today-(buffer+7) <= date <= today-buffer, and removes the others.
C13_BufferedWindow ==
    [][last_call'.name = "add_buffer_days"
        => RetainsExactly(callouts_df, callouts_df', last_call'.today,
                          last_call'.arg, last_call'.arg + 7)
      ]_vars

\* add_buffer_days(1) ran eight days after the second row: the callout of
\* the second row (date = today-(buffer+7)) is there, the callout the same
\* check made for the first row is not
C13_Witness ==
    /\ last_call.name = "add_buffer_days"
    /\ last_call.arg = 1
    /\ last_call.today = 10
    /\ Len(df_grouped.rows) >= 2
    /\ ConditionMask(df_grouped, "AMOUNT", ">", 20, 1)
    /\ df_grouped.rows[1].DATE = 1
    /\ callouts_df = <<ConditionCallout(df_grouped, "AMOUNT", ">", 20, 2)>>
    /\ callouts_df[1].date = 2


\* x <= y on std_devs_away values as floats: False when either is NaN
DevLeq(x, y) == x.kind = "num" /\ y.kind = "num" /\ x.z <= y.z

\* the number of times x occurs in the sequence s
Count(s, x) == Cardinality({i \in 1..Len(s) : s[i] = x})

\* s and t hold the same callouts, each as many times
SameBag(s, t) ==
    /\ Len(s) = Len(t)
    /\ \A i \in 1..Len(s) : Count(s, s[i]) = Count(t, s[i])

\* the callouts of the sort contract's example, dates as days of January and
\* deviations in hundredths
SortExample ==
    << [date |-> 2, std_devs_away |-> [kind |-> "num", z |-> 300]],
       [date |-> 2, std_devs_away |-> [kind |-> "num", z |-> 100]],
       [date |-> 1, std_devs_away |-> [kind |-> "num", z |-> 500]] >>

\* C14 as stated: after get_callouts, any adjacent callouts a before b have
\* date(a) > date(b), or the same date and
\* std_devs_away(a) <= std_devs_away(b).
C14_AdjacentOrdered ==
    last_call.name = "get_callouts"
        => \A i \in 1..(Len(callouts_df) - 1) :
              LET a == callouts_df[i]
                  b == callouts_df[i + 1]
              IN  \/ a.date > b.date
                  \/ /\ a.date = b.date
                     /\ DevLeq(a.std_devs_away, b.std_devs_away)

\* C14, amended: get_callouts keeps the callouts of the working set and
\* orders them by date descending; within a date the callouts that carry a
\* std_devs_away come first, by std_devs_away ascending, and the callouts
\* without one (absolute-threshold checks) come after them.
C14_SortedDeviationsThenMissing ==
    /\ [](SortValues(SortExample, TRUE)
            = <<SortExample[2], SortExample[1], SortExample[3]>>)
    /\ [](last_call.name = "get_callouts"
            => \A i \in 1..(Len(callouts_df) - 1) :
                  LET a == callouts_df[i]
                      b == callouts_df[i + 1]
                  IN  \/ a.date > b.date
                      \/ /\ a.date = b.date
                         /\ \/ DevLeq(a.std_devs_away, b.std_devs_away)
                            \/ b.std_devs_away.kind = "nan")
    /\ [][last_call'.name = "get_callouts"
            => SameBag(callouts_df, callouts_df')]_vars

\* get_callouts returned two callouts of one date with different deviations
C14_Witness ==
    /\ last_call.name = "get_callouts"
    /\ Len(callouts_df) = 2
    /\ callouts_df[1].date = callouts_df[2].date
    /\ callouts_df[1].std_devs_away.kind = "num"
    /\ callouts_df[2].std_devs_away.kind = "num"
    /\ callouts_df[1].std_devs_away.z < callouts_df[2].std_devs_away.z


\* C15 as stated: after get_callouts, among the spike and drop callouts of
\* one date, a callout with the smaller |std_devs_away| never comes after one
\* with the larger.
C15_MildestFirstWithinDate ==
    last_call.name = "get_callouts"
        => \A i, j \in 1..Len(callouts_df) :
              (/\ i < j
               /\ callouts_df[i].date = callouts_df[j].date
               /\ callouts_df[i].std_devs_away.kind = "num"
               /\ callouts_df[j].std_devs_away.kind = "num")
              => Abs(callouts_df[i].std_devs_away.z)
                    <= Abs(callouts_df[j].std_devs_away.z)


\* C16: calculate_rolling_stats called again with the metric and window of
\* the call before it leaves the frame, baseline columns included, exactly as
\* that call left it; so does any number of such calls.
C16_RollingStatsIdempotent ==
    [][(/\ last_call.name = "calculate_rolling_stats"
        /\ last_call'.name = "calculate_rolling_stats"
        /\ last_call'.metric = last_call.metric
        /\ last_call'.arg = last_call.arg)
        => df_grouped' = df_grouped
      ]_vars

\* the baseline of a key with three different values was computed with a
\* window shorter than the series
C16_Witness ==
    /\ last_call.name = "calculate_rolling_stats"
    /\ last_call.arg = 2
    /\ Len(df_grouped.rows) = 3
    /\ \A i \in 1..3 : df_grouped.rows[i].KEY = "A"
    /\ \A i, j \in 1..3 :
          i # j => df_grouped.rows[i].VAL["AMOUNT"] # df_grouped.rows[j].VAL["AMOUNT"]
    /\ df_grouped.avg["AMOUNT"].present
    /\ df_grouped.avg["AMOUNT"].col[3].n = 2

\* C17: calculate_rolling_stats(metric) leaves the rows (keys, dates, raw
\* values, their number and order), the baseline columns of every other
\* metric and the callout set as they were, and writes both baseline columns
\* of the metric.
C17_RollingStatsFrame ==
    [][last_call'.name = "calculate_rolling_stats"
        => /\ df_grouped'.rows = df_grouped.rows
           /\ \A x \in AllMetrics \ {last_call'.metric} :
                 /\ df_grouped'.avg[x] = df_grouped.avg[x]
                 /\ df_grouped'.std[x] = df_grouped.std[x]
           /\ HasBaseline(df_grouped', last_call'.metric)
           /\ callouts_df' = callouts_df
      ]_vars

\* the baseline of AMOUNT was computed while HOURS had its baseline and the
\* callout set held a callout
C17_Witness ==
    /\ last_call.name = "calculate_rolling_stats"
    /\ last_call.metric = "AMOUNT"
    /\ HasBaseline(df_grouped, "AMOUNT")
    /\ HasBaseline(df_grouped, "HOURS")
    /\ Len(df_grouped.rows) = 3
    /\ Len(callouts_df) > 0


\* the row that holds the largest value of the metric
ExtremeRow(df, m) ==
    CHOOSE p \in 1..Len(df.rows) :
        \A j \in 1..Len(df.rows) : df.rows[j].VAL[m] <= df.rows[p].VAL[m]

\* new is one spike callout, for row p
FlagsOnly(new, df, p) ==
    /\ Len(new) = 1
    /\ new[1].key = df.rows[p].KEY
    /\ new[1].date = df.rows[p].DATE
    /\ new[1].check.kind = "Spike"

\* C18 as stated: on a flat single-key series with one extreme high value
\* at any position, with the baseline over 7 rows, the spike check at
\* threshold 2 flags exactly the row of the extreme value and the drop check
\* at threshold 2 flags no row.
C18_ExtremeFlaggedAnywhere ==
    [][last_call'.raised = ""
        => /\ last_call'.name = "check_spike_in_column"
                 => FlagsOnly(Appended(callouts_df, callouts_df'), df_grouped,
                              ExtremeRow(df_grouped, last_call'.metric))
           /\ last_call'.name = "check_drop_in_column"
                 => callouts_df' = callouts_df
      ]_vars

\* C18, amended: the spike check flags no row but the one of the extreme
\* value, and flags that row exactly when it is the 6th row of the series or
\* a later one (its window then holds 6 or 7 rows); the drop check flags no
\* row.
C18_ExtremeFlaggedFromSixthRow ==
    [][last_call'.raised = ""
        => /\ last_call'.name = "check_spike_in_column"
                 => IF ExtremeRow(df_grouped, last_call'.metric) >= 6
                    THEN FlagsOnly(Appended(callouts_df, callouts_df'), df_grouped,
                                   ExtremeRow(df_grouped, last_call'.metric))
                    ELSE callouts_df' = callouts_df
           /\ last_call'.name = "check_drop_in_column"
                 => callouts_df' = callouts_df
      ]_vars

\* the spike check flagged the extreme value, which is on the 6th day of a
\* series that goes on after it
C18_Witness ==
    /\ last_call.name = "check_spike_in_column"
    /\ last_call.arg = 2
    /\ Len(df_grouped.rows) > 6
    /\ ExtremeRow(df_grouped, "AMOUNT") = 6
    /\ Len(callouts_df) = 1
    /\ callouts_df[1].date = 6


\* the rows of the frame with the key and the date of callout c
RowsOf(df, c) ==
    {i \in 1..Len(df.rows) : df.rows[i].KEY = c.key /\ df.rows[i].DATE = c.date}

\* row i satisfies the condition of the check that callout c names
MeetsCheck(df, c, i) ==
    IF c.check.kind = "Spike"
    THEN StrictlyAbove(df, c.check.metric, c.condition.threshold, i)
    ELSE IF c.check.kind = "Drop"
    THEN StrictlyBelow(df, c.check.metric, c.condition.threshold, i)
    ELSE Satisfies(df.rows[i].VAL[c.check.metric], c.check.kind,
                   c.condition.threshold)

\* the frame holds one row per (KEY, DATE)
OnePerKeyDate(rows) ==
    \A i, j \in 1..Len(rows) :
        (rows[i].KEY = rows[j].KEY /\ rows[i].DATE = rows[j].DATE) => i = j

\* C19 as stated: a check invocation appends exactly one callout per flagged
\* row; each callout it appends names the check and carries the key and date
\* of exactly one row of the series, a row that satisfies the check's
\* condition as the check runs; no other method adds or alters a callout, so
\* this holds of every callout of the working set.
C19_CalloutAttributable ==
    [][IF last_call'.name \in CheckNames
       THEN LET new == Appended(callouts_df, callouts_df')
            IN  /\ SubSeq(callouts_df', 1, Len(callouts_df)) = callouts_df
                /\ Len(new) = IF last_call'.raised = ""
                              THEN FlaggedCount(df_grouped, last_call') ELSE 0
                /\ \A j \in 1..Len(new) :
                      /\ new[j].check.metric = last_call'.metric
                      /\ new[j].condition.threshold = last_call'.arg
                      /\ new[j].condition.op = last_call'.op
                      /\ Cardinality(RowsOf(df_grouped, new[j])) = 1
                      /\ \A i \in RowsOf(df_grouped, new[j]) :
                            MeetsCheck(df_grouped, new[j], i)
                      /\ \A k \in 1..Len(new) :
                            (/\ new[k].key = new[j].key
                             /\ new[k].date = new[j].date) => k = j
       ELSE \A j \in 1..Len(callouts_df') :
               \E i \in 1..Len(callouts_df) : callouts_df'[j] = callouts_df[i]
      ]_vars

\* C19, amended: a check invocation appends exactly one callout per flagged
\* row, in frame order; the callout of a flagged row names the check and
\* carries the key and date of that row, which satisfies the check's
\* condition as the check runs, and when the series holds one row per
\* (key, date) no other row has that key and date and no other callout of the
\* invocation carries them; no other method adds or alters a callout, so
\* this holds of every callout of the working set.
C19_CalloutAttributableToARow ==
    [][IF last_call'.name \in CheckNames
       THEN LET new == Appended(callouts_df, callouts_df')
                f   == IF last_call'.raised = ""
                       THEN FlaggedRows(df_grouped, last_call') ELSE <<>>
            IN  /\ SubSeq(callouts_df', 1, Len(callouts_df)) = callouts_df
                /\ Len(new) = Len(f)
                /\ \A j \in 1..Len(new) :
                      /\ new[j].check.metric = last_call'.metric
                      /\ new[j].condition.threshold = last_call'.arg
                      /\ new[j].condition.op = last_call'.op
                      /\ f[j] \in RowsOf(df_grouped, new[j])
                      /\ MeetsCheck(df_grouped, new[j], f[j])
                      /\ OnePerKeyDate(df_grouped.rows) =>
                            /\ RowsOf(df_grouped, new[j]) = {f[j]}
                            /\ \A k \in 1..Len(new) :
                                  (/\ new[k].key = new[j].key
                                   /\ new[k].date = new[j].date) => k = j
       ELSE \A j \in 1..Len(callouts_df') :
               \E i \in 1..Len(callouts_df) : callouts_df'[j] = callouts_df[i]
      ]_vars

\* on a frame with one row per (KEY, DATE), one row carries a callout of the
\* spike check and a callout of the absolute-threshold check
C19_Witness ==
    /\ OnePerKeyDate(df_grouped.rows)
    /\ Len(callouts_df) = 2
    /\ callouts_df[1].key = callouts_df[2].key
    /\ callouts_df[1].date = callouts_df[2].date
    /\ {callouts_df[1].check.kind, callouts_df[2].check.kind} = {"Spike", ">"}


\* the check invocations, by method, metric, operator and threshold
CheckCalls ==
    {Call("check_spike_in_column", m, ">", t, "") : m \in Metrics, t \in Thresholds}
    \cup {Call("check_drop_in_column", m, "<", t, "") : m \in Metrics, t \in Thresholds}
    \cup {Call("check_condition_in_column", m, op, c, "") :
              m \in Metrics, op \in {">", "<"}, c \in CondThresholds}

\* the callouts the invocation call appends on the frame df
BatchOf(df, call) ==
    IF call.name = "check_spike_in_column"
    THEN SpikeBatch(df, call.metric, call.arg)
    ELSE IF call.name = "check_drop_in_column"
    THEN DropBatch(df, call.metric, call.arg)
    ELSE ConditionBatch(df, call.metric, call.op, call.arg)

\* the working set after two invocations that append first and then second
AfterBoth(callouts, first, second) ==
    Concat(Concat(callouts, first), second)

\* the (date, std_devs_away) pairs of a sequence of callouts
DateDevPairs(s) == [i \in 1..Len(s) |-> <<s[i].date, s[i].std_devs_away>>]

\* the check invocations, numbered
CheckCallSeq ==
    CHOOSE s \in [1..Cardinality(CheckCalls) -> CheckCalls] :
        \A c \in CheckCalls : \E i \in DOMAIN s : s[i] = c

\* C20: with the baselines computed, any two check invocations run one after
\* the other leave the same callouts in the working set, each as many times,
\* in either order, and get_callouts then returns the same sequence of
\* (date, std_devs_away) pairs.
C20_ChecksCommute ==
    (\A m \in Metrics : HasBaseline(df_grouped, m))
        => LET batch == [i \in DOMAIN CheckCallSeq |->
                            BatchOf(df_grouped, CheckCallSeq[i])] \o <<>>
           IN  \A i, j \in DOMAIN CheckCallSeq :
                  i < j =>
                     LET ab == AfterBoth(callouts_df, batch[i], batch[j])
                         ba == AfterBoth(callouts_df, batch[j], batch[i])
                     IN  /\ SameBag(ab, ba)
                         /\ DateDevPairs(SortedCallouts(ab))
                               = DateDevPairs(SortedCallouts(ba))

\* a spike check and an absolute-threshold check have run, each flagged a
\* row, and the working set differs from the one the other order builds
C20_Witness ==
    /\ last_call.name \in CheckNames
    /\ \A m \in Metrics : HasBaseline(df_grouped, m)
    /\ \E c1, c2 \in CheckCalls :
          /\ c1.name = "check_condition_in_column"
          /\ c2.name = "check_spike_in_column"
          /\ BatchOf(df_grouped, c1) # <<>>
          /\ BatchOf(df_grouped, c2) # <<>>
          /\ callouts_df
                = AfterBoth(<<>>, BatchOf(df_grouped, c1), BatchOf(df_grouped, c2))
          /\ callouts_df
                # AfterBoth(<<>>, BatchOf(df_grouped, c2), BatchOf(df_grouped, c1))
          /\ SortedCallouts(callouts_df) # callouts_df


(* ================== properties of the callout records ================= *)
\* row i has the key, the date and the value of callout c and satisfies the
\* condition of the check that c names: c can be the callout of row i
IsRowOf(df, c, i) ==
    /\ i \in RowsOf(df, c)
    /\ df.rows[i].VAL[c.check.metric] = c.value
    /\ MeetsCheck(df, c, i)

\* z hundredths is a nearest hundredth to (value - mean) / std of row i:
\* |100 * (value - mean) / std - z| <= 1/2, with the sign of value - mean
NearestHundredth(z, df, m, i) ==
    LET a   == Excess(df, m, i)
        num == 10000 * a * a * df.std[m].col[i].d
        den == df.avg[m].col[i].n * df.avg[m].col[i].n * df.std[m].col[i].q
    IN  /\ ~df.std[m].col[i].nan
        /\ den > 0
        /\ (a >= 0 /\ z >= 0) \/ (a <= 0 /\ z <= 0)
        /\ 4 * num <= (2 * Abs(z) + 1) * (2 * Abs(z) + 1) * den
        /\ Abs(z) > 0 => (2 * Abs(z) - 1) * (2 * Abs(z) - 1) * den <= 4 * num

\* C21: a callout of the spike or drop check carries
\* (value - rolling_mean) / rolling_std of its row rounded to 2 decimals as
\* std_devs_away; a callout of the absolute-threshold check carries none.
\* (The baseline is that of window 7, the only one computed here.)
C21_StdDevsAwayRounded ==
    \A j \in 1..Len(callouts_df) :
        LET c == callouts_df[j]
        IN  IF c.check.kind \in {"Spike", "Drop"}
            THEN /\ c.std_devs_away.kind = "num"
                 /\ \E i \in 1..Len(df_grouped.rows) :
                       /\ IsRowOf(df_grouped, c, i)
                       /\ NearestHundredth(c.std_devs_away.z, df_grouped,
                                           c.check.metric, i)
            ELSE c.std_devs_away.kind = "nan"

\* the working set holds a spike callout 0.577.. standard deviations above
\* its mean, stored as 0.58, and an absolute-threshold callout
C21_Witness ==
    /\ Len(callouts_df) = 2
    /\ callouts_df[1].check.kind = "Spike"
    /\ callouts_df[1].std_devs_away = [kind |-> "num", z |-> 58]
    /\ callouts_df[2].check.kind \in {">", "<"}
    /\ callouts_df[2].std_devs_away.kind = "nan"


(* ================== C22: get_callouts dispatches on the columns ======== *)
\* every callout of s is followed by one that does not sort before it
DateDescending(s) ==
    \A i \in 1..(Len(s) - 1) : s[i].date >= s[i + 1].date

DateThenDeviation(s) ==
    \A i \in 1..(Len(s) - 1) :
        \/ s[i].date > s[i + 1].date
        \/ /\ s[i].date = s[i + 1].date
           /\ \/ DevLeq(s[i].std_devs_away, s[i + 1].std_devs_away)
              \/ s[i + 1].std_devs_away = Missing

MetricAscending(s) ==
    \A i \in 1..(Len(s) - 1) :
        NameOrder(s[i].metric) <= NameOrder(s[i + 1].metric)

\* C22: get_callouts returns the callouts it was given, ordered by the fields
\* the callout set has: by date descending then std_devs_away ascending when
\* it has both, by date descending when it has a date only, by metric
\* ascending when it has a metric and no date, and unchanged otherwise
C22_OrderingFollowsColumns ==
    [][last_call'.name = "get_callouts" =>
          /\ SameBag(callouts_df, callouts_df')
          /\ IF "date" \in callout_columns
             THEN IF "std_devs_away" \in callout_columns
                  THEN DateThenDeviation(callouts_df')
                  ELSE DateDescending(callouts_df')
             ELSE IF "metric" \in callout_columns
                  THEN MetricAscending(callouts_df')
                  ELSE callouts_df' = callouts_df]_vars

\* a frame with a date and a metric but no std_devs_away has been sorted: the
\* later date is first although its metric sorts last
C22_Witness ==
    /\ last_call.name = "get_callouts"
    /\ callout_columns = {"key", "date", "metric"}
    /\ Len(callouts_df) = 2
    /\ callouts_df[1].date = 2 /\ callouts_df[1].metric = "HOURS"
    /\ callouts_df[2].date = 1 /\ callouts_df[2].metric = "AMOUNT"


(* ================== C23: the length of the buffered window ============= *)
\* the dates, among the thirty days up to today, of which add_buffer_days
\* keeps a callout
RetainableDates(today, buffer_days) ==
    {d \in (today - 30)..today :
        KeepBuffered(<<[date |-> d]>>, today, buffer_days) # <<>>}

\* C23: add_buffer_days(buffer_days) keeps callouts from a span of exactly 7
\* calendar days: once it has run, the dates a remaining callout can have
\* number 7.
C23_SevenDaySpan ==
    last_call.name = "add_buffer_days"
        => Cardinality(RetainableDates(last_call.today, last_call.arg)) = 7


(* ================== C24: the columns of the callout set ================ *)
\* C24: whatever has been called since construction (rolling statistics,
\* checks of any kind, filters, get_callouts), the working callout set has a
\* 'date' and a 'std_devs_away' column and each of its callouts has both
\* entries, so that get_callouts takes its first branch: the only result it
\* can give is the sort by date descending then std_devs_away ascending.
C24_DateAndDeviationColumns ==
    /\ {"date", "std_devs_away"} \subseteq callout_columns
    /\ \A i \in 1..Len(callouts_df) :
          {"date", "std_devs_away"} \subseteq DOMAIN callouts_df[i]
    /\ SortResults(callouts_df, callout_columns) = {SortedCallouts(callouts_df)}

\* only absolute-threshold checks have run, without any baseline, and their
\* callouts have been sorted: the callout set holds callouts without a
\* std_devs_away value and still has the column
C24_Witness ==
    /\ last_call.name = "get_callouts"
    /\ Len(callouts_df) = 2
    /\ \A i \in 1..2 : /\ callouts_df[i].condition.unit = "abs"
                        /\ callouts_df[i].std_devs_away = Missing
    /\ \A m \in AllMetrics : ~df_grouped.avg[m].present
    /\ "std_devs_away" \in callout_columns


(* ================== C25: callouts without a deviation sort last ======== *)
\* C25: in what get_callouts returns, among the callouts of one date no
\* callout without a std_devs_away value comes before a callout that has
\* one.
C25_MissingDeviationLast ==
    last_call.name = "get_callouts"
        => \A i, j \in 1..Len(callouts_df) :
              /\ i < j
              /\ callouts_df[i].date = callouts_df[j].date
              /\ callouts_df[i].std_devs_away = Missing
              => callouts_df[j].std_devs_away = Missing

\* get_callouts returned a spike or drop callout followed by an
\* absolute-threshold callout of the same date
C25_Witness ==
    /\ last_call.name = "get_callouts"
    /\ \E i, j \in 1..Len(callouts_df) :
          /\ i < j
          /\ callouts_df[i].date = callouts_df[j].date
          /\ callouts_df[i].std_devs_away.kind = "num"
          /\ callouts_df[i].condition.unit = "std"
          /\ callouts_df[j].std_devs_away = Missing
          /\ callouts_df[j].condition.unit = "abs"


(* ================== C26: the window holds the row it tests ============= *)
\* C26: a row whose window holds n rows is flagged by the spike or the drop
\* check with threshold t only if (n-1)^2 > t^2 * n, whatever the metric
\* values; so with the default threshold 2 no callout is made for any of the
\* first 5 rows of a key, with the default window 7 or any other.
C26_WindowSizeBoundsFlagging ==
    /\ \A m \in Metrics :
          HasBaseline(df_grouped, m) =>
              \A i \in 1..Len(df_grouped.rows), t \in AllThresholds :
                  SpikeMask(df_grouped, m, t, i) \/ DropMask(df_grouped, m, t, i)
                      => LET n == df_grouped.avg[m].col[i].n
                         IN  (n - 1) * (n - 1) > t * t * n
    /\ \A j \in 1..Len(callouts_df) :
          /\ callouts_df[j].condition.unit = "std"
          /\ callouts_df[j].condition.threshold = 2
          => Cardinality({i \in 1..Len(df_grouped.rows) :
                            /\ df_grouped.rows[i].KEY = callouts_df[j].key
                            /\ df_grouped.rows[i].DATE <= callouts_df[j].date}) >= 6

\* the sixth row of a key has a callout of a check with threshold 2, and its
\* window holds six rows
C26_Witness ==
    /\ HasBaseline(df_grouped, "AMOUNT")
    /\ Len(df_grouped.rows) >= 6
    /\ df_grouped.avg["AMOUNT"].col[6].n = 6
    /\ \E j \in 1..Len(callouts_df) :
          /\ callouts_df[j].condition.unit = "std"
          /\ callouts_df[j].condition.threshold = 2
          /\ callouts_df[j].date = 6


(* ================== C27: spikes and drops exclude each other =========== *)
\* no row is in the spike mask and in the drop mask of one metric for the
\* same threshold
NeverBoth ==
    \A m \in Metrics :
        HasBaseline(df_grouped, m) =>
            \A i \in 1..Len(df_grouped.rows), t \in AllThresholds :
                ~(SpikeMask(df_grouped, m, t, i) /\ DropMask(df_grouped, m, t, i))

\* C27 as stated: for one metric and one threshold t >= 0 no row is flagged
\* by both the spike and the drop check; every spike callout has
\* std_devs_away > 0 and every drop callout has std_devs_away < 0.
C27_StrictlyOppositeSigns ==
    /\ NeverBoth
    /\ \A j \in 1..Len(callouts_df) :
          /\ callouts_df[j].check.kind = "Spike"
                => callouts_df[j].std_devs_away.z > 0
          /\ callouts_df[j].check.kind = "Drop"
                => callouts_df[j].std_devs_away.z < 0

\* C27, amended: for one metric and one threshold t >= 0 no row is flagged by
\* both the spike and the drop check; every spike callout has
\* std_devs_away >= 0 and every drop callout has std_devs_away <= 0, and they
\* are > 0 and < 0 when t >= 1 (at t = 0 a deviation of less than 0.005 is
\* stored as 0.0).
C27_OppositeSignsOrZero ==
    /\ NeverBoth
    /\ \A j \in 1..Len(callouts_df) :
          LET c == callouts_df[j]
          IN  /\ c.std_devs_away.kind = "num"
              /\ c.check.kind = "Spike" => c.std_devs_away.z >= 0
              /\ c.check.kind = "Drop" => c.std_devs_away.z <= 0
              /\ c.condition.threshold >= 1 => c.std_devs_away.z # 0

\* the working set holds a spike callout whose deviation was rounded to
\* zero, and a drop callout of the same series with a negative one
C27_Witness ==
    /\ Len(callouts_df) = 2
    /\ callouts_df[1].check.kind = "Spike"
    /\ callouts_df[1].condition.threshold = 0
    /\ callouts_df[1].std_devs_away = [kind |-> "num", z |-> 0]
    /\ callouts_df[2].check.kind = "Drop"
    /\ callouts_df[2].std_devs_away.z < 0


(* ================== C28: the two date filters together ================= *)
\* new is old with some callouts removed
IsSubSeq(new, old) ==
    \E f \in [1..Len(new) -> 1..Len(old)] :
        /\ \A i, j \in 1..Len(new) : i < j => f[i] < f[j]
        /\ \A i \in 1..Len(new) : new[i] = old[f[i]]

\* each filter applied twice is the filter applied once
FiltersIdempotent(callouts, today, b) ==
    /\ KeepLastWeek(KeepLastWeek(callouts, today), today)
          = KeepLastWeek(callouts, today)
    /\ KeepBuffered(KeepBuffered(callouts, today, b), today, b)
          = KeepBuffered(callouts, today, b)

\* both filters, in either order, leave the callouts dated today-7 .. last
BothFiltersKeep(callouts, today, b, last) ==
    /\ KeepBuffered(KeepLastWeek(callouts, today), today, b)
          = KeepLastWeek(KeepBuffered(callouts, today, b), today)
    /\ KeepBuffered(KeepLastWeek(callouts, today), today, b)
          = SelectSeq(callouts, LAMBDA c : c.date >= today - 7 /\ c.date <= last)

FiltersOnlyRemove ==
    [][last_call'.name \in {"filter_last_week", "add_buffer_days"}
          => IsSubSeq(callouts_df', callouts_df)]_vars

\* C28 as stated: filter_last_week and add_buffer_days only remove callouts,
\* each is idempotent, and both applied in either order with the same today
\* leave exactly the callouts dated today-7 .. today-buffer_days, none when
\* buffer_days > 7.
C28_BothFiltersWindow ==
    \A today \in TodaySet, b \in FilterBufferDays :
        /\ FiltersIdempotent(callouts_df, today, b)
        /\ BothFiltersKeep(callouts_df, today, b, today - b)
        /\ b > 7 => KeepBuffered(KeepLastWeek(callouts_df, today), today, b) = <<>>

\* C28, amended: filter_last_week and add_buffer_days only remove callouts,
\* each is idempotent, and both applied in either order with the same today
\* leave exactly the callouts dated today-7 .. today-buffer_days when
\* buffer_days >= 1 (none when buffer_days > 7), and those dated
\* today-7 .. today-1 when buffer_days = 0.
C28_BothFiltersWindowFromOne ==
    /\ [](\A today \in TodaySet, b \in FilterBufferDays :
             /\ FiltersIdempotent(callouts_df, today, b)
             /\ BothFiltersKeep(callouts_df, today, b,
                                IF b >= 1 THEN today - b ELSE today - 1)
             /\ b > 7 => KeepBuffered(KeepLastWeek(callouts_df, today),
                                      today, b) = <<>>)
    /\ FiltersOnlyRemove

\* add_buffer_days(3) ran seven days after the last row and kept its callout,
\* which filter_last_week keeps as well on that day, and removed another
C28_Witness ==
    /\ last_call.name = "add_buffer_days"
    /\ last_call.arg = 3
    /\ last_call.today = 10
    /\ Len(callouts_df) = 1
    /\ callouts_df[1].date = 3
    /\ KeepLastWeek(callouts_df, 10) = callouts_df
    /\ \E i \in 1..Len(df_grouped.rows) :
          /\ df_grouped.rows[i].DATE = 2
          /\ df_grouped.rows[i].KEY = callouts_df[1].key
          /\ ConditionMask(df_grouped, "AMOUNT", callouts_df[1].condition.op, 20, i)


(* ================== C29: get_callouts only reorders ==================== *)
\* C29: get_callouts leaves the series alone and adds or removes no callout:
\* the working set after the call holds the callouts it held before, each as
\* many times, in the order returned, and a second call would return that
\* very sequence.
C29_SortIsStoredPermutation ==
    [][last_call'.name = "get_callouts"
          => /\ df_grouped' = df_grouped
             /\ SameBag(callouts_df, callouts_df')
             /\ SortResults(callouts_df', callout_columns') = {callouts_df'}
      ]_vars

\* get_callouts ran on two callouts that one spike check appended in the
\* order of their rows: the later one is now first
C29_Witness ==
    /\ last_call.name = "get_callouts"
    /\ Len(callouts_df) = 2
    /\ callouts_df[1].check = callouts_df[2].check
    /\ callouts_df[1].check.kind = "Spike"
    /\ callouts_df[1].date > callouts_df[2].date


(* ================== C30: one baseline per metric ======================= *)
\* row i of df is beyond t standard deviations of the window of w rows that
\* ends at it, above (spike) or below
BeyondWindow(df, m, w, t, i, spike) ==
    LET vals == WindowOf(df.rows, m, w, i)
    IN  IF spike
        THEN IsSpike(df.rows[i].VAL[m], WindowMean(vals), WindowStd(vals), t)
        ELSE IsDrop(df.rows[i].VAL[m], WindowMean(vals), WindowStd(vals), t)

\* C30: calculate_rolling_stats(metric, w) leaves, for that metric, exactly
\* the baselines of window w, whatever baselines of another window were
\* there; the checks leave the baselines alone, and a spike or drop check
\* that follows flags exactly the rows that are beyond the threshold of the
\* most recently computed window.
C30_LatestWindowIsTheBaseline ==
    /\ [][last_call'.name = "calculate_rolling_stats"
            => LET m == last_call'.metric
                   w == last_call'.arg
               IN  /\ df_grouped'.avg[m] = Column(RollingMean(df_grouped.rows, m, w))
                   /\ df_grouped'.std[m] = Column(RollingStd(df_grouped.rows, m, w))
                   /\ df_grouped'.rows = df_grouped.rows]_vars
    /\ [][last_call'.name \in {"check_spike_in_column", "check_drop_in_column"}
            => /\ df_grouped' = df_grouped
               /\ (/\ last_call.name = "calculate_rolling_stats"
                    /\ last_call.metric = last_call'.metric)
                   => LET new == Appended(callouts_df, callouts_df')
                          hit == {i \in 1..Len(df_grouped.rows) :
                                    BeyondWindow(df_grouped, last_call'.metric,
                                                 last_call.arg, last_call'.arg, i,
                                                 last_call'.name = "check_spike_in_column")}
                      IN  /\ Len(new) = Cardinality(hit)
                          /\ {new[j].date : j \in 1..Len(new)}
                                = {df_grouped.rows[i].DATE : i \in hit}]_vars

\* a spike check with threshold 1 has run on baselines of window 2 and made
\* no callout, on a series of which the baselines of window 7 put a row
\* beyond that threshold
C30_Witness ==
    /\ last_call = Call("check_spike_in_column", "AMOUNT", ">", 1, "")
    /\ callouts_df = <<>>
    /\ df_grouped.avg["AMOUNT"] = Column(RollingMean(df_grouped.rows, "AMOUNT", 2))
    /\ df_grouped.avg["AMOUNT"] # Column(RollingMean(df_grouped.rows, "AMOUNT", 7))
    /\ \E i \in 1..Len(df_grouped.rows) :
          BeyondWindow(df_grouped, "AMOUNT", 7, 1, i, TRUE)

====
